---- MODULE Spec2Model ----
(***************************************************************************)
(* Model of the tutoring API backends of this repository: four express     *)
(* servers (src/server.js, the two servers of src/unnamed/part_000 and     *)
(* src/unnamed/part_001) with their /api/lesson, /api/tts and              *)
(* /api/gamification/explain-concept handlers, the explanation cache, and  *)
(* the external providers (generative model, neural TTS, fallback TTS) as  *)
(* nondeterministic environments.                                          *)
(*                                                                         *)
(* A handler runs on the node event loop: the synchronous code up to the   *)
(* first await is one atomic step, and the continuation after a promise    *)
(* settles is another atomic step.                                         *)
(***************************************************************************)
EXTENDS Integers, Sequences, FiniteSets, TLC

\* ------------------------------------------------------------------------
\* Bounds
\* ------------------------------------------------------------------------

\* number of requests a run of the server receives
NReq == 2

Req == 1..NReq

\* ------------------------------------------------------------------------
\* Strings: a string is a sequence of one-character strings
\* ------------------------------------------------------------------------

\* String.prototype.toLowerCase on one character of the model's alphabet
LowerChar(c) ==
  CASE c = "A" -> "a"
    [] c = "I" -> "i"
    [] c = "L" -> "l"
    [] c = "M" -> "m"
    [] c = "N" -> "n"
    [] c = "O" -> "o"
    [] c = "Q" -> "q"
    [] c = "S" -> "s"
    [] c = "T" -> "t"
    [] c = "U" -> "u"
    [] OTHER -> c

\* String.prototype.toLowerCase
toLowerCase(s) == [i \in DOMAIN s |-> LowerChar(s[i])]

\* the value of a field that the request body does not carry
Absent == <<"undefined">>

\* the default of the destructured context parameter
DefaultContext == <<"s", "i", "m", "u", "l", "a", "t", "i", "o", "n">>

\* destructuring default: applies only when the field is undefined
context(body) == IF body.context = Absent THEN DefaultContext ELSE body.context

\* JavaScript truthiness of a string field: undefined and "" are falsy
Falsy(s) == s = Absent \/ s = <<>>

ExplainBody(s, t, st, c) ==
  [subject |-> s, topic |-> t, subtopic |-> st, context |-> c]

\* the explain-concept bodies the model sends: a tuple in lower and in upper
\* case, with the context absent, given as the default and given as another
\* value, tuples whose fields hold the ':' of the key, and a missing subject
ExplainBodies ==
  { ExplainBody(<<"m">>, <<"a">>, <<"l">>, Absent),
    ExplainBody(<<"M">>, <<"A">>, <<"L">>, Absent),
    ExplainBody(<<"m">>, <<"a">>, <<"l">>, DefaultContext),
    ExplainBody(<<"M">>, <<"A">>, <<"L">>,
                <<"S", "I", "M", "U", "L", "A", "T", "I", "O", "N">>),
    ExplainBody(<<"m">>, <<"a">>, <<"l">>, <<"q">>),
    ExplainBody(<<"M">>, <<"A">>, <<"L">>, <<"Q">>),
    ExplainBody(<<"m", ":", "a">>, <<"a">>, <<"l">>, Absent),
    ExplainBody(<<"m">>, <<"a", ":", "a">>, <<"l">>, Absent),
    ExplainBody(Absent, <<"a">>, <<"l">>, Absent),
    ExplainBody(<<"m">>, <<>>, <<"l">>, Absent),
    ExplainBody(<<"m">>, <<"a">>, Absent, <<"q">>) }

\* values of the prompt and of the files of a lesson body; a file is given by
\* its media type
Prompts == {Absent, <<>>, <<"p">>}
FileLists == {Absent, <<>>, <<"image/png">>}

LessonBodies == [prompt : Prompts, files : FileLists]

\* used for the body of a request that is not a lesson request
NoLessonBody == [prompt |-> Absent, files |-> Absent]

\* used for the fields of a request that is not an explain-concept request
NoExplainBody ==
  [subject |-> Absent, topic |-> Absent, subtopic |-> Absent, context |-> Absent]

\* the key without the toLowerCase call
cacheKeyCaseSensitive(body) ==
  body.subject \o <<":">> \o body.topic \o <<":">>
  \o body.subtopic \o <<":">> \o context(body)

\* `${subject}:${topic}:${subtopic}:${context}`.toLowerCase()
cacheKey(body) ==
  toLowerCase(body.subject \o <<":">> \o body.topic \o <<":">>
              \o body.subtopic \o <<":">> \o context(body))

\* ------------------------------------------------------------------------
\* The generative-content provider and JSON.parse
\* ------------------------------------------------------------------------

\* texts the provider answers an explain-concept prompt with
NotJson == "Sorry, I cannot help with that."
ExplainTextOne == "{\"explanation\":\"e1\",\"steps\":[{\"id\":\"step-1\",\"text\":\"t1\"}]}"
ExplainTextTwo == "{\"explanation\":\"e2\",\"steps\":[]}"

ExplainTexts == {NotJson, ExplainTextOne, ExplainTextTwo}

\* texts the provider answers a lesson prompt with: a lesson that conforms to
\* responseSchema, a lesson whose step has an action outside the enum and an
\* empty content, and an object without a lesson
LessonTextGood == "{\"lesson\":[{\"id\":\"s1\",\"action\":\"write\",\"content\":\"c\"}]}"
LessonTextBadStep == "{\"lesson\":[{\"id\":\"s1\",\"action\":\"dance\",\"content\":\"\"}]}"
LessonTextNoLesson == "{\"steps\":[]}"

LessonTexts == {NotJson, LessonTextGood, LessonTextBadStep, LessonTextNoLesson}

\* what JSON.parse throws
SyntaxError == [thrown |-> "SyntaxError"]

\* JSON.parse on the texts of the model
JSONparse(t) ==
  CASE t = ExplainTextOne ->
         [explanation |-> "e1", steps |-> <<[id |-> "step-1", text |-> "t1"]>>]
    [] t = ExplainTextTwo -> [explanation |-> "e2", steps |-> <<>>]
    [] t = LessonTextGood ->
         [lesson |-> <<[id |-> "s1", action |-> "write", content |-> "c"]>>]
    [] t = LessonTextBadStep ->
         [lesson |-> <<[id |-> "s1", action |-> "dance", content |-> ""]>>]
    [] t = LessonTextNoLesson -> [steps |-> <<>>]
    [] OTHER -> SyntaxError

\* ------------------------------------------------------------------------
\* Map (the explanation cache is a Map from key to parsed payload)
\* ------------------------------------------------------------------------

MapHas(m, k) == k \in DOMAIN m
MapGet(m, k) == m[k]
MapSet(m, k, v) == [x \in DOMAIN m \cup {k} |-> IF x = k THEN v ELSE m[x]]

\* ------------------------------------------------------------------------
\* State
\* ------------------------------------------------------------------------

\* the four servers of the repository
Servers == {"server.js", "part_000/1", "part_000/2", "part_001"}

VARIABLES
  server,            \* which of the four servers this process runs
  process,           \* "running" or "crashed"
  explanationCache,  \* the Map of part_001
  route,             \* route[r]: endpoint request r was sent to, or "none"
  pc,                \* pc[r]: where the handler of request r is
  reqBody,           \* reqBody[r]: body of an explain-concept request
  lessonBody,        \* lessonBody[r]: body of a lesson request
  status,            \* status[r]: HTTP status of the response, 0 before it starts
  resBody,           \* resBody[r]: body of the response
  ctype,             \* ctype[r]: Content-Type header set on the response
  resStarts,         \* resStarts[r]: times the handler started a response
  genCalls,          \* genCalls[r]: generateContent calls made for request r
  ttsText,           \* ttsText[r]: req.query.text of a tts request
  race,              \* race[r]: state of the Promise.race of a tts request
  synth,             \* synth[r]: state of the tts.synthesize() promise
  timer,             \* timer[r]: state of the 7000 ms setTimeout
  fallback,          \* fallback[r]: state of the gTTS stream
  primaryCalls,      \* primaryCalls[r]: tts.synthesize() calls made
  fallbackCalls,     \* fallbackCalls[r]: gTTS objects created
  finished,          \* the explain-concept requests answered, in that order
  seen               \* seen[r]: length of finished when request r arrived

ttsVars == <<ttsText, race, synth, timer, fallback, primaryCalls, fallbackCalls>>

vars == <<server, process, explanationCache, route, pc, reqBody, lessonBody,
          status, resBody, ctype, resStarts, genCalls, finished, seen, ttsVars>>

NoBody == [none |-> TRUE]

\* requests are numbered in the order they arrive
NextToArrive(r) ==
  /\ process = "running"
  /\ pc[r] = "idle"
  /\ \A q \in Req : q < r => pc[q] # "idle"

InitRequests ==
  /\ process = "running"
  /\ explanationCache = <<>>
  /\ route = [r \in Req |-> "none"]
  /\ pc = [r \in Req |-> "idle"]
  /\ reqBody = [r \in Req |-> NoExplainBody]
  /\ lessonBody = [r \in Req |-> NoLessonBody]
  /\ status = [r \in Req |-> 0]
  /\ resBody = [r \in Req |-> NoBody]
  /\ ctype = [r \in Req |-> "none"]
  /\ resStarts = [r \in Req |-> 0]
  /\ genCalls = [r \in Req |-> 0]
  /\ ttsText = [r \in Req |-> Absent]
  /\ race = [r \in Req |-> "none"]
  /\ synth = [r \in Req |-> "none"]
  /\ timer = [r \in Req |-> "none"]
  /\ fallback = [r \in Req |-> "none"]
  /\ primaryCalls = [r \in Req |-> 0]
  /\ fallbackCalls = [r \in Req |-> 0]
  /\ finished = <<>>
  /\ seen = [r \in Req |-> 0]

\* ------------------------------------------------------------------------
\* POST /api/gamification/explain-concept (part_001)
\* ------------------------------------------------------------------------

\* res.status(s).json(b), res.json(b) or res.send(b): the response of r is
\* complete
Respond(r, s, ct, b) ==
  /\ status' = [status EXCEPT ![r] = s]
  /\ ctype' = [ctype EXCEPT ![r] = ct]
  /\ resBody' = [resBody EXCEPT ![r] = b]
  /\ resStarts' = [resStarts EXCEPT ![r] = @ + 1]
  /\ pc' = [pc EXCEPT ![r] = "done"]

\* a store that keeps the entry a key already has
StoreIfAbsent(m, k, v) == IF MapHas(m, k) THEN m ELSE MapSet(m, k, v)

\* explanationCache.set(cacheKey, parsedData)
StoreInCache(m, k, v) == MapSet(m, k, v)

\* a lookup that never finds the key
CacheNeverHit(m, k) == FALSE

\* explanationCache.has(cacheKey)
CacheHit(m, k) == MapHas(m, k)

\* the handler up to its first await
ExplainRequest(r, body) ==
  /\ server = "part_001"
  /\ NextToArrive(r)
  /\ route' = [route EXCEPT ![r] = "explain"]
  /\ reqBody' = [reqBody EXCEPT ![r] = body]
  /\ seen' = [seen EXCEPT ![r] = Len(finished)]
  /\ UNCHANGED <<server, process, explanationCache, ttsVars, lessonBody>>
  /\ IF Falsy(body.subject) \/ Falsy(body.topic) \/ Falsy(body.subtopic)
     THEN /\ Respond(r, 400, "application/json", [error |-> "Invalid request"])
          /\ finished' = Append(finished, r)
          /\ UNCHANGED genCalls
     ELSE IF CacheHit(explanationCache, cacheKey(body))
     THEN /\ Respond(r, 200, "application/json",
                     MapGet(explanationCache, cacheKey(body)))
          /\ finished' = Append(finished, r)
          /\ UNCHANGED genCalls
     ELSE /\ genCalls' = [genCalls EXCEPT ![r] = @ + 1]
          /\ pc' = [pc EXCEPT ![r] = "generating"]
          /\ UNCHANGED <<status, resBody, ctype, resStarts, finished>>

\* generateContent resolved with text t: parse, store, respond
ExplainGenerated(r, t) ==
  /\ process = "running"
  /\ route[r] = "explain"
  /\ pc[r] = "generating"
  /\ finished' = Append(finished, r)
  /\ UNCHANGED <<server, process, route, reqBody, genCalls, seen, ttsVars,
                 lessonBody>>
  /\ IF JSONparse(t) = SyntaxError
     THEN /\ Respond(r, 500, "application/json", [error |-> "AI generation failed"])
          /\ UNCHANGED explanationCache
     ELSE /\ explanationCache' =
               StoreInCache(explanationCache, cacheKey(reqBody[r]), JSONparse(t))
          /\ Respond(r, 200, "application/json", JSONparse(t))

\* a catch block that stores the error body under the key of the request
ExplainGenerationFailedCachesError(r) ==
  /\ process = "running"
  /\ route[r] = "explain"
  /\ pc[r] = "generating"
  /\ explanationCache' =
       MapSet(explanationCache, cacheKey(reqBody[r]),
              [error |-> "AI generation failed"])
  /\ Respond(r, 500, "application/json", [error |-> "AI generation failed"])
  /\ finished' = Append(finished, r)
  /\ UNCHANGED <<server, process, route, reqBody, genCalls, seen, ttsVars,
                 lessonBody>>

\* generateContent rejected, or response.text() threw
ExplainGenerationFailed(r) ==
  /\ process = "running"
  /\ route[r] = "explain"
  /\ pc[r] = "generating"
  /\ Respond(r, 500, "application/json", [error |-> "AI generation failed"])
  /\ finished' = Append(finished, r)
  /\ UNCHANGED <<server, process, explanationCache, route, reqBody, genCalls,
                 seen, ttsVars, lessonBody>>

InitExplain == server = "part_001" /\ InitRequests

NextExplain ==
  \E r \in Req :
    \/ \E body \in ExplainBodies : ExplainRequest(r, body)
    \/ \E t \in ExplainTexts : ExplainGenerated(r, t)
    \/ ExplainGenerationFailed(r)

SpecExplain == InitExplain /\ [][NextExplain]_vars

\* ------------------------------------------------------------------------
\* GET /api/tts (all four servers)
\* ------------------------------------------------------------------------

\* values of req.query.text
TtsTexts == {Absent, <<>>, <<"H", "i">>}

\* the fallback block of the handler is wrapped in its own try/catch in every
\* server except the second one of part_000
HasInnerTry(srv) == srv # "part_000/2"

\* what the gTTS provider does when the handler falls back to it: the
\* constructor throws, stream() throws after the Content-Type header was set,
\* or a stream is returned and piped into the response
FallbackOutcomes == {"ctorThrows", "streamThrows", "streaming"}

\* what becomes of an exception that leaves the async handler: express 5
\* passes it to its error middleware, express 4 leaves an unhandled rejection,
\* which node reports and survives, or dies of
EscapeOutcomes == {"errorMiddleware", "rejectionWarned", "rejectionCrashed"}

\* an exception leaves the async handler of request r
HandlerRejects(r, x, ct) ==
  IF x = "errorMiddleware"
  THEN /\ Respond(r, 500, "text/html", [text |-> "Internal Server Error"])
       /\ UNCHANGED process
  ELSE /\ pc' = [pc EXCEPT ![r] = "escaped"]
       /\ ctype' = [ctype EXCEPT ![r] = ct]
       /\ process' = IF x = "rejectionCrashed" THEN "crashed" ELSE process
       /\ UNCHANGED <<status, resBody, resStarts>>

\* the catch block: new gTTS(text, "en"), res.set, fallback.stream().pipe(res)
UseFallback(r, o, x) ==
  /\ fallbackCalls' = [fallbackCalls EXCEPT ![r] = @ + 1]
  /\ IF o = "streaming"
     THEN /\ fallback' = [fallback EXCEPT ![r] = "streaming"]
          /\ ctype' = [ctype EXCEPT ![r] = "audio/mpeg"]
          /\ resStarts' = [resStarts EXCEPT ![r] = @ + 1]
          /\ pc' = [pc EXCEPT ![r] = "piping"]
          /\ UNCHANGED <<status, resBody, process>>
     ELSE /\ fallback' = [fallback EXCEPT ![r] = "threw"]
          /\ IF HasInnerTry(server)
             THEN /\ Respond(r, 500,
                             IF o = "streamThrows" THEN "audio/mpeg" ELSE "text/html",
                             [text |-> "TTS failed"])
                  /\ UNCHANGED process
             ELSE HandlerRejects(r, x,
                                 IF o = "streamThrows" THEN "audio/mpeg" ELSE ctype[r])

\* a race settled by its second promise: the later outcome replaces the first
SettleLast(state, outcome) == outcome

\* Promise.race: the first promise to settle settles the race
Settle(state, outcome) == IF state = "pending" THEN outcome ELSE state

\* an event of a promise that lost the race changes nothing of the response
Abandoned ==
  UNCHANGED <<pc, status, resBody, ctype, resStarts, process, fallback,
              fallbackCalls>>

\* the handler up to the await of the race
TtsRequest(r, text, p, o, x) ==
  /\ NextToArrive(r)
  /\ route' = [route EXCEPT ![r] = "tts"]
  /\ ttsText' = [ttsText EXCEPT ![r] = text]
  /\ UNCHANGED <<server, explanationCache, reqBody, lessonBody, genCalls,
                 finished, seen>>
  /\ IF Falsy(text)
     THEN /\ Respond(r, 400, "text/html", [text |-> "No text provided"])
          /\ UNCHANGED <<process, race, synth, timer, fallback, primaryCalls,
                         fallbackCalls>>
     ELSE /\ primaryCalls' = [primaryCalls EXCEPT ![r] = @ + 1]
          /\ IF p = "throws"
             THEN /\ UseFallback(r, o, x)
                  /\ UNCHANGED <<race, synth, timer>>
             ELSE /\ race' = [race EXCEPT ![r] = "pending"]
                  /\ synth' = [synth EXCEPT ![r] = "pending"]
                  /\ timer' = [timer EXCEPT ![r] = "armed"]
                  /\ pc' = [pc EXCEPT ![r] = "racing"]
                  /\ UNCHANGED <<status, resBody, ctype, resStarts, process,
                                 fallback, fallbackCalls>>

\* tts.synthesize() resolved; readable tells whether result.audio.arrayBuffer()
\* yields the audio
SynthesisResolved(r, readable, o, x) ==
  /\ process = "running"
  /\ route[r] = "tts"
  /\ synth[r] = "pending"
  /\ synth' = [synth EXCEPT ![r] = IF readable THEN "resolved" ELSE "unreadable"]
  /\ race' = [race EXCEPT ![r] = Settle(@, "fulfilled")]
  /\ UNCHANGED <<server, explanationCache, route, reqBody, lessonBody, genCalls,
                 finished, seen, ttsText, timer, primaryCalls>>
  /\ IF race'[r] = race[r]
     THEN Abandoned
     ELSE IF readable
     THEN /\ Respond(r, 200, "audio/mpeg", [audio |-> "primary"])
          /\ UNCHANGED <<process, fallback, fallbackCalls>>
     ELSE UseFallback(r, o, x)

\* tts.synthesize() rejected
SynthesisRejected(r, o, x) ==
  /\ process = "running"
  /\ route[r] = "tts"
  /\ synth[r] = "pending"
  /\ synth' = [synth EXCEPT ![r] = "rejected"]
  /\ race' = [race EXCEPT ![r] = Settle(@, "rejected")]
  /\ UNCHANGED <<server, explanationCache, route, reqBody, lessonBody, genCalls,
                 finished, seen, ttsText, timer, primaryCalls>>
  /\ IF race'[r] = race[r] THEN Abandoned ELSE UseFallback(r, o, x)

\* the 7000 ms timer fired: reject(new Error("Timeout"))
TimerFired(r, o, x) ==
  /\ process = "running"
  /\ route[r] = "tts"
  /\ timer[r] = "armed"
  /\ timer' = [timer EXCEPT ![r] = "fired"]
  /\ race' = [race EXCEPT ![r] = Settle(@, "timeout")]
  /\ UNCHANGED <<server, explanationCache, route, reqBody, lessonBody, genCalls,
                 finished, seen, ttsText, synth, primaryCalls>>
  /\ IF race'[r] = race[r] THEN Abandoned ELSE UseFallback(r, o, x)

\* the gTTS stream ended: pipe ends the response it started
FallbackStreamEnded(r) ==
  /\ process = "running"
  /\ route[r] = "tts"
  /\ pc[r] = "piping"
  /\ fallback[r] = "streaming"
  /\ fallback' = [fallback EXCEPT ![r] = "ended"]
  /\ status' = [status EXCEPT ![r] = 200]
  /\ resBody' = [resBody EXCEPT ![r] = [audio |-> "fallback"]]
  /\ pc' = [pc EXCEPT ![r] = "done"]
  /\ UNCHANGED <<server, process, explanationCache, route, reqBody, lessonBody,
                 ctype, resStarts, genCalls, finished, seen, ttsText, race,
                 synth, timer, primaryCalls, fallbackCalls>>

\* the gTTS stream emitted 'error': no listener is attached, so node throws an
\* uncaught exception; sent tells whether part of the audio was written before
FallbackStreamErrored(r, sent) ==
  /\ process = "running"
  /\ route[r] = "tts"
  /\ pc[r] = "piping"
  /\ fallback[r] = "streaming"
  /\ fallback' = [fallback EXCEPT ![r] = "errored"]
  /\ pc' = [pc EXCEPT ![r] = "escaped"]
  /\ process' = "crashed"
  /\ status' = [status EXCEPT ![r] = IF sent THEN 200 ELSE 0]
  /\ resBody' = [resBody EXCEPT ![r] =
                   IF sent THEN [audio |-> "fallback, truncated"] ELSE NoBody]
  /\ UNCHANGED <<server, explanationCache, route, reqBody, lessonBody, ctype,
                 resStarts, genCalls, finished, seen, ttsText, race, synth,
                 timer, primaryCalls, fallbackCalls>>

InitTts == server \in Servers /\ InitRequests

NextTts ==
  \E r \in Req :
    \/ \E text \in TtsTexts, p \in {"started", "throws"},
          o \in FallbackOutcomes, x \in EscapeOutcomes :
         TtsRequest(r, text, p, o, x)
    \/ \E readable \in BOOLEAN, o \in FallbackOutcomes, x \in EscapeOutcomes :
         SynthesisResolved(r, readable, o, x)
    \/ \E o \in FallbackOutcomes, x \in EscapeOutcomes : SynthesisRejected(r, o, x)
    \/ \E o \in FallbackOutcomes, x \in EscapeOutcomes : TimerFired(r, o, x)
    \/ FallbackStreamEnded(r)
    \/ \E sent \in BOOLEAN : FallbackStreamErrored(r, sent)

SpecTts == InitTts /\ [][NextTts]_vars

\* ------------------------------------------------------------------------
\* POST /api/lesson (all four servers)
\* ------------------------------------------------------------------------

\* the enum of action in responseSchema
LessonActions == {"write", "explain", "draw"}

\* the fallbackLesson of the catch block
fallbackLesson ==
  <<[id |-> "error1", action |-> "write",
     content |-> "Sorry, I couldn't generate this lesson. Please try again.",
     position |-> "center"]>>

\* only the first server of part_000 checks the body
ValidatesLessonBody(srv) == srv = "part_000/1"

\* !prompt && (!files || files.length === 0)
LessonBodyEmpty(body) ==
  Falsy(body.prompt) /\ (body.files = Absent \/ Len(body.files) = 0)

\* the body of the 500 response when the provider call failed
GenerationFailedBody(srv) ==
  CASE srv \in {"server.js", "part_000/1"} ->
         [error |-> "Failed to generate lesson", fallbackLesson |-> fallbackLesson]
    [] srv = "part_000/2" -> [error |-> "AI Generation Failed"]
    [] OTHER -> [error |-> "Failed to generate lesson"]

\* the body of the 500 response when JSON.parse threw on text t
ParseFailedBody(srv, t) ==
  IF srv = "part_000/1"
  THEN [error |-> "Invalid response format from AI model", rawResponse |-> t]
  ELSE GenerationFailedBody(srv)

lessonFrame ==
  UNCHANGED <<server, process, explanationCache, reqBody, finished, seen, ttsVars>>

\* the handler up to its first await
LessonRequest(r, body) ==
  /\ NextToArrive(r)
  /\ route' = [route EXCEPT ![r] = "lesson"]
  /\ lessonBody' = [lessonBody EXCEPT ![r] = body]
  /\ lessonFrame
  /\ IF ValidatesLessonBody(server) /\ LessonBodyEmpty(body)
     THEN /\ Respond(r, 400, "application/json",
                     [error |-> "Either prompt or files must be provided"])
          /\ UNCHANGED genCalls
     ELSE /\ genCalls' = [genCalls EXCEPT ![r] = @ + 1]
          /\ pc' = [pc EXCEPT ![r] = "generating"]
          /\ UNCHANGED <<status, resBody, ctype, resStarts>>

\* generateContent resolved with text t: res.json(JSON.parse(text))
LessonGenerated(r, t) ==
  /\ process = "running"
  /\ route[r] = "lesson"
  /\ pc[r] = "generating"
  /\ lessonFrame
  /\ UNCHANGED <<route, lessonBody, genCalls>>
  /\ IF JSONparse(t) = SyntaxError
     THEN Respond(r, 500, "application/json", ParseFailedBody(server, t))
     ELSE Respond(r, 200, "application/json", JSONparse(t))

\* generateContent rejected, or response.text() threw
LessonGenerationFailed(r) ==
  /\ process = "running"
  /\ route[r] = "lesson"
  /\ pc[r] = "generating"
  /\ lessonFrame
  /\ UNCHANGED <<route, lessonBody, genCalls>>
  /\ Respond(r, 500, "application/json", GenerationFailedBody(server))

InitLesson == server \in Servers /\ InitRequests

NextLesson ==
  \E r \in Req :
    \/ \E body \in LessonBodies : LessonRequest(r, body)
    \/ \E t \in LessonTexts : LessonGenerated(r, t)
    \/ LessonGenerationFailed(r)

SpecLesson == InitLesson /\ [][NextLesson]_vars

\* ------------------------------------------------------------------------
\* Properties of the explanation cache
\* ------------------------------------------------------------------------

\* position of a finished request in the order of completion
FinishedAt(r) == CHOOSE i \in 1..Len(finished) : finished[i] = r

\* the requests whose response was complete when r arrived
DoneBefore(r) == {finished[i] : i \in 1..seen[r]}

\* r passed the validation of the explain-concept handler
ExplainAccepted(r) ==
  /\ route[r] = "explain"
  /\ ~ Falsy(reqBody[r].subject)
  /\ ~ Falsy(reqBody[r].topic)
  /\ ~ Falsy(reqBody[r].subtopic)

\* r2 arrived after r1 was answered, and no other request was answered
\* between the arrival of r1 and the arrival of r2
Sequential(r1, r2) ==
  /\ r1 # r2
  /\ route[r1] = "explain"
  /\ route[r2] = "explain"
  /\ r1 \in DoneBefore(r2)
  /\ \A q \in DoneBefore(r2) \ {r1} : q \in DoneBefore(r1)

\* r was answered from the cache with the payload of q, without a provider call
ServedFromEntryOf(r, q) ==
  /\ pc[r] = "done"
  /\ status[r] = 200
  /\ resBody[r] = resBody[q]
  /\ genCalls[r] = 0

\* C1: of two sequential explain-concept requests with identical (subject,
\* topic, subtopic, context), the first answered 200, the second returns the
\* payload of the first and makes no provider call
RepeatedRequestServedFromCache ==
  \A r1, r2 \in Req :
    (Sequential(r1, r2) /\ status[r1] = 200 /\ reqBody[r1] = reqBody[r2])
      => /\ ServedFromEntryOf(r2, r1)
         /\ genCalls[r1] + genCalls[r2] <= 1

\* two identical requests, the first a miss answered 200 by the provider, the
\* second answered after it
RepeatedRequestWitness ==
  \E r1, r2 \in Req :
    /\ Sequential(r1, r2)
    /\ status[r1] = 200
    /\ genCalls[r1] = 1
    /\ reqBody[r1] = reqBody[r2]
    /\ pc[r2] = "done"

\* the fields of b1 and b2 differ at most in letter case
SameUpToCase(b1, b2) ==
  /\ toLowerCase(b1.subject) = toLowerCase(b2.subject)
  /\ toLowerCase(b1.topic) = toLowerCase(b2.topic)
  /\ toLowerCase(b1.subtopic) = toLowerCase(b2.subtopic)
  /\ toLowerCase(b1.context) = toLowerCase(b2.context)

\* C2: two explain-concept requests whose fields differ only in letter case
\* have the same cache key, and the second is served from the entry the first
\* stored
CacheKeyCaseInsensitive ==
  \A r1, r2 \in Req :
    (Sequential(r1, r2) /\ status[r1] = 200
       /\ SameUpToCase(reqBody[r1], reqBody[r2]))
      => /\ cacheKey(reqBody[r1]) = cacheKey(reqBody[r2])
         /\ ServedFromEntryOf(r2, r1)

\* a request in upper case answered after the same request in lower case (or
\* the other way round) stored its entry
CacheKeyCaseWitness ==
  \E r1, r2 \in Req :
    /\ Sequential(r1, r2)
    /\ status[r1] = 200
    /\ genCalls[r1] = 1
    /\ SameUpToCase(reqBody[r1], reqBody[r2])
    /\ reqBody[r1] # reqBody[r2]
    /\ reqBody[r1].context # Absent
    /\ pc[r2] = "done"

\* the requests that missed the cache on key k and stored a payload under it
Writers(k) ==
  {r \in Req : /\ ExplainAccepted(r)
               /\ cacheKey(reqBody[r]) = k
               /\ genCalls[r] > 0
               /\ pc[r] = "done"
               /\ status[r] = 200}

\* the writer of k whose provider call completed last
LastWriter(k) ==
  CHOOSE r \in Writers(k) : \A q \in Writers(k) : FinishedAt(q) <= FinishedAt(r)

\* C3: concurrent misses on one key are not deduplicated: every request that
\* passed the cache check without a hit has made its own provider call, and the
\* value of a key is the payload of the request whose call completed last
ConcurrentMissesLastWriteWins ==
  /\ \A r \in Req :
       (route[r] = "explain" /\ pc[r] = "generating") => genCalls[r] = 1
  /\ \A k \in DOMAIN explanationCache :
       /\ Writers(k) # {}
       /\ explanationCache[k] = resBody[LastWriter(k)]

\* two requests missed on the same key, both called the provider, and the
\* cache holds the payload of the later one, which differs from the earlier
ConcurrentMissesWitness ==
  \E r1, r2 \in Req :
    /\ r1 # r2
    /\ r1 \in Writers(cacheKey(reqBody[r2]))
    /\ r2 \in Writers(cacheKey(reqBody[r2]))
    /\ genCalls[r1] = 1
    /\ genCalls[r2] = 1
    /\ FinishedAt(r1) < FinishedAt(r2)
    /\ resBody[r1] # resBody[r2]
    /\ explanationCache[cacheKey(reqBody[r2])] = resBody[r2]

\* C4: a cache entry is created on the first miss for its key and is
\* read-only afterward: no entry is removed and the value of a key never
\* changes
CacheEntriesReadOnly ==
  [][\A k \in DOMAIN explanationCache :
       /\ k \in DOMAIN explanationCache'
       /\ explanationCache'[k] = explanationCache[k]]_vars

\* ------------------------------------------------------------------------
\* Properties of the tts handler
\* ------------------------------------------------------------------------

PrimaryAudio == [audio |-> "primary"]
FallbackAudio == [audio |-> "fallback"]

\* the handler of r has nothing more to do
Ended(r) == pc[r] \in {"done", "escaped"}

\* C5 as stated: when the timer fires before the synthesis completes the
\* response is the fallback audio with Content-Type audio/mpeg, and when the
\* synthesis completes first (with its audio) the response is the primary audio
TimeoutYieldsFallbackAudio ==
  \A r \in Req :
    (route[r] = "tts" /\ Ended(r))
      => /\ race[r] = "timeout"
              => /\ status[r] = 200
                 /\ ctype[r] = "audio/mpeg"
                 /\ resBody[r] = FallbackAudio
         /\ (race[r] = "fulfilled" /\ synth[r] = "resolved")
              => resBody[r] = PrimaryAudio

\* C5 (amended): when the timer settles the race the handler calls the
\* fallback provider once and never sends the primary audio, and the audio the
\* fallback streams goes out as audio/mpeg with status 200; when a synthesis
\* with readable audio settles the race the response is the primary audio as
\* audio/mpeg with status 200 and the fallback provider is not called; the
\* primary audio is sent in no other case
RaceDecidesAudioSource ==
  \A r \in Req :
    route[r] = "tts"
      => /\ race[r] = "timeout"
              => /\ fallbackCalls[r] = 1
                 /\ resBody[r] # PrimaryAudio
                 /\ fallback[r] \in {"streaming", "ended"}
                      => ctype[r] = "audio/mpeg"
                 /\ fallback[r] = "ended"
                      => /\ pc[r] = "done"
                         /\ status[r] = 200
                         /\ resBody[r] = FallbackAudio
         /\ (race[r] = "fulfilled" /\ synth[r] = "resolved")
              => /\ pc[r] = "done"
                 /\ status[r] = 200
                 /\ ctype[r] = "audio/mpeg"
                 /\ resBody[r] = PrimaryAudio
                 /\ fallbackCalls[r] = 0
         /\ resBody[r] = PrimaryAudio
              => (race[r] = "fulfilled" /\ synth[r] = "resolved")

\* the timer fired first, the fallback audio was streamed to its end, and the
\* abandoned synthesis resolved afterwards
RaceTimeoutWitness ==
  \E r \in Req :
    /\ route[r] = "tts"
    /\ race[r] = "timeout"
    /\ synth[r] = "resolved"
    /\ fallback[r] = "ended"
    /\ resBody[r] = FallbackAudio
    /\ ctype[r] = "audio/mpeg"

\* C6: when the primary provider fails or times out and the fallback provider
\* fails too, synchronously or while its stream is piped, the request ends
\* with a 500 response
BothProvidersFailYields500 ==
  \A r \in Req :
    (route[r] = "tts" /\ fallback[r] \in {"threw", "errored"})
      => (pc[r] = "done" /\ status[r] = 500)

\* C9: every upstream failure ends in an error response of the handler: no
\* exception leaves a handler and the process keeps running
NoFailureEscapesHandler ==
  /\ process = "running"
  /\ \A r \in Req : pc[r] # "escaped"

\* ------------------------------------------------------------------------
\* Properties of the lesson handler
\* ------------------------------------------------------------------------

\* C7: a lesson request whose prompt is empty or absent and whose files are
\* empty or absent is answered 400 and the provider is not called
EmptyLessonRequestRejected ==
  \A r \in Req :
    (route[r] = "lesson" /\ LessonBodyEmpty(lessonBody[r]))
      => (pc[r] = "done" /\ status[r] = 400 /\ genCalls[r] = 0)

\* C8: every failed lesson call is answered 500 with the canned fallback
\* lesson
LessonFailureCarriesFallback ==
  \A r \in Req :
    (route[r] = "lesson" /\ pc[r] = "done" /\ status[r] = 500)
      => /\ "fallbackLesson" \in DOMAIN resBody[r]
         /\ resBody[r].fallbackLesson = fallbackLesson

\* v is a lesson whose every step has an action of the enum and a content
WellFormedLesson(v) ==
  /\ "lesson" \in DOMAIN v
  /\ \A i \in DOMAIN v.lesson :
       /\ v.lesson[i].action \in LessonActions
       /\ v.lesson[i].content # ""

\* C10: every 200 response of the lesson handler holds a lesson array whose
\* every element has an action of the enum and a non-empty content
LessonResponseWellFormed ==
  \A r \in Req :
    (route[r] = "lesson" /\ pc[r] = "done" /\ status[r] = 200)
      => WellFormedLesson(resBody[r])

\* ------------------------------------------------------------------------
\* One-shot fallback of the tts handler
\* ------------------------------------------------------------------------

\* the primary attempt of r failed or timed out
PrimaryFailed(r) ==
  \/ race[r] \in {"timeout", "rejected"}
  \/ (race[r] = "fulfilled" /\ synth[r] = "unreadable")
  \/ (race[r] = "none" /\ primaryCalls[r] = 1)

\* r is a tts request with a non-empty text that the server received
TtsAccepted(r) == route[r] = "tts" /\ ~ Falsy(ttsText[r])

\* C11: for every tts request with a non-empty text the primary provider is
\* invoked exactly once, the fallback provider at most once and only after the
\* primary attempt failed or timed out, exactly one response is started, and a
\* synthesis that completes after the timeout never writes to the response
TtsFallbackOneShot ==
  \A r \in Req :
    TtsAccepted(r)
      => /\ primaryCalls[r] = 1
         /\ fallbackCalls[r] <= 1
         /\ fallbackCalls[r] = 1 => PrimaryFailed(r)
         /\ resStarts[r] <= 1
         /\ Ended(r) => resStarts[r] = 1
         /\ race[r] = "timeout" => resBody[r] # PrimaryAudio

\* ------------------------------------------------------------------------
\* Failed misses and key collisions of the explanation cache
\* ------------------------------------------------------------------------

\* every request on the key of r that was answered before r arrived failed
OnlyFailuresBefore(r) ==
  \A q \in DoneBefore(r) :
    (ExplainAccepted(q) /\ cacheKey(reqBody[q]) = cacheKey(reqBody[r]))
      => status[q] = 500

\* C12: a miss that ends in a 500 (the provider call rejected or its text did
\* not parse) leaves the cache as it was, for every key, and a request whose
\* key has only seen failures calls the provider again
FailedMissLeavesCacheUnchanged ==
  /\ [](\A r \in Req :
          (ExplainAccepted(r) /\ pc[r] # "idle" /\ OnlyFailuresBefore(r))
            => genCalls[r] = 1)
  /\ [][\A r \in Req :
          (route[r] = "explain" /\ pc[r] = "generating" /\ status'[r] = 500)
            => explanationCache' = explanationCache]_vars

\* a miss answered 500, then a request on the same key that calls the
\* provider again while the cache has no entry for the key
FailedMissWitness ==
  \E r1, r2 \in Req :
    /\ Sequential(r1, r2)
    /\ ExplainAccepted(r1)
    /\ ExplainAccepted(r2)
    /\ cacheKey(reqBody[r1]) = cacheKey(reqBody[r2])
    /\ genCalls[r1] = 1
    /\ status[r1] = 500
    /\ genCalls[r2] = 1
    /\ ~ MapHas(explanationCache, cacheKey(reqBody[r2]))

\* the (subject, topic, subtopic, context) of a body after lowercasing, the
\* context defaulted when absent
NormalTuple(b) ==
  <<toLowerCase(b.subject), toLowerCase(b.topic), toLowerCase(b.subtopic),
    toLowerCase(context(b))>>

\* r was answered from the cache
CacheHitRequest(r) ==
  /\ ExplainAccepted(r)
  /\ pc[r] = "done"
  /\ status[r] = 200
  /\ genCalls[r] = 0

\* C13: requests whose tuples differ after lowercasing never share a cache
\* entry, also when a field holds ':': the requests that stored under one key
\* have one tuple, and a request answered from the cache is answered with a
\* payload generated for its own tuple
CacheKeySeparatesTuples ==
  /\ \A k \in DOMAIN explanationCache :
       \A q1, q2 \in Writers(k) :
         NormalTuple(reqBody[q1]) = NormalTuple(reqBody[q2])
  /\ \A r \in Req :
       CacheHitRequest(r)
         => \E q \in DoneBefore(r) :
              /\ ExplainAccepted(q)
              /\ status[q] = 200
              /\ NormalTuple(reqBody[q]) = NormalTuple(reqBody[r])
              /\ resBody[q] = resBody[r]

\* ------------------------------------------------------------------------
\* Termination of the tts handler
\* ------------------------------------------------------------------------

\* the timer of r fires
TimerStep(r) ==
  \E o \in FallbackOutcomes, x \in EscapeOutcomes : TimerFired(r, o, x)

\* the gTTS stream of r ends or emits 'error'
StreamStep(r) ==
  FallbackStreamEnded(r) \/ \E sent \in BOOLEAN : FallbackStreamErrored(r, sent)

\* node fires an armed timer, and the fallback stream ends or errors; nothing
\* is assumed of tts.synthesize(), which may stay pending for ever
FairTts == \A r \in Req : WF_vars(TimerStep(r)) /\ WF_vars(StreamStep(r))

SpecTtsFair == InitTts /\ [][NextTts]_vars /\ FairTts

\* C14: every tts request with a non-empty text eventually receives a
\* complete response (primary audio, fallback audio or a 500), also when the
\* synthesis never completes
TtsRequestEventuallyAnswered ==
  \A r \in Req : TtsAccepted(r) ~> (pc[r] = "done")

====
